---- MODULE Spec2Model ----
(***************************************************************************)
(* The take kernel of rust/arrow (compute/kernels/take.rs) and the         *)
(* primitive equality kernel (array/equal/primitive.rs), over a model of   *)
(* ArrayData: type tag, logical length and offset, null count, physical    *)
(* null bitmap, physical buffers and children.                             *)
(*                                                                         *)
(* A kernel call is one step: the inputs are drawn in Init, the action     *)
(* applies the kernel and records its outcome (Ok array, Err, or Panic).   *)
(***************************************************************************)
EXTENDS Integers, Sequences, FiniteSets, TLC

\* the arguments of a take call, the arguments of a primitive_equal call, the
\* entry point called, and what it returned
VARIABLES arg_values, arg_indices, arg_options, equal_args, call, result

vars == <<arg_values, arg_indices, arg_options, equal_args, call, result>>

----------------------------------------------------------------------------
(* Bounds of the model *)

\* longest logical length of an input array (values and indices)
MaxLen == 2
\* largest logical offset of a sliced input array
MaxOffset == 1
\* the fixed size of the fixed-size-list inputs
FixedSize == 2

----------------------------------------------------------------------------
(* Small utilities *)

Min(S) == CHOOSE x \in S : \A y \in S : x <= y

SeqsUpTo(S, n) == UNION {[1..k -> S] : k \in 0..n}

\* s[from+1 .. to] with 0-based half-open bounds [from, to)
Slice0(s, from, to) == [k \in 1..(to - from) |-> s[from + k]]

RECURSIVE Flatten(_)
Flatten(ss) == IF ss = <<>> THEN <<>> ELSE Head(ss) \o Flatten(Tail(ss))

----------------------------------------------------------------------------
(* Results of a call *)

Ok(a) == [kind |-> "Ok", array |-> a]
ComputeError(msg) == [kind |-> "Err", error |-> "ComputeError", msg |-> msg]
Panic(msg) == [kind |-> "Panic", msg |-> msg]
NoResult == [kind |-> "None"]

CastFailed == ComputeError(<<"Cast to usize failed">>)

\* ToPrimitive::to_usize: fails on a negative value
to_usize(x) == [ok |-> x >= 0, v |-> x]

----------------------------------------------------------------------------
(* Null bitmaps: bit k (0-based) is bits[k+1]; TRUE means valid *)

\* bit_util::ceil
ceil(value, divisor) == (value + divisor - 1) \div divisor

NoBitmap == [present |-> FALSE, bits |-> <<>>]
Bitmap(bits) == [present |-> TRUE, bits |-> bits]

\* MutableBuffer::new(num_bytes).with_bitset(num_bytes, val)
with_bitset(num_bytes, val) == [k \in 1..(8 * num_bytes) |-> val]

\* bit_util::unset_bit over a set of positions
unset_bits(bits, positions) ==
    [k \in 1..Len(bits) |-> IF (k - 1) \in positions THEN FALSE ELSE bits[k]]

\* bit_util::set_bit over a set of positions
set_bits(bits, positions) ==
    [k \in 1..Len(bits) |-> IF (k - 1) \in positions THEN TRUE ELSE bits[k]]

\* buffer_bin_and(left, left_offset, right, right_offset, len): a new bitmap
\* of ceil(len / 8) bytes, zero-initialised, bit i set where both inputs are
buffer_bin_and(left, left_offset, right, right_offset, len) ==
    [k \in 1..(8 * ceil(len, 8)) |->
        IF k <= len THEN left[left_offset + k] /\ right[right_offset + k]
        ELSE FALSE]

\* number of unset bits of the bitmap over [offset, offset + len)
count_nulls(null_bitmap, offset, len) ==
    IF null_bitmap.present
    THEN Cardinality({k \in (offset + 1)..(offset + len) : ~null_bitmap.bits[k]})
    ELSE 0

----------------------------------------------------------------------------
(* ArrayData *)

NoCount == [some |-> FALSE, v |-> 0]
SomeCount(n) == [some |-> TRUE, v |-> n]

\* ArrayData::new(data_type, len, null_count, null_bit_buffer, offset,
\*                buffers, child_data)
ArrayData_new(data_type, len, null_count, null_bitmap, offset, buffers, child_data) ==
    [data_type  |-> data_type,
     len        |-> len,
     null_count |-> IF null_count.some THEN null_count.v
                    ELSE count_nulls(null_bitmap, offset, len),
     null_bitmap |-> null_bitmap,
     offset     |-> offset,
     buffers    |-> buffers,
     child_data |-> child_data]

\* ArrayData::slice: a zero-copy view, same buffers and children
ArrayData_slice(a, offset, length) ==
    [a EXCEPT !.len = length,
              !.offset = a.offset + offset,
              !.null_count = count_nulls(a.null_bitmap, a.offset + offset, length)]

\* Array::is_null(i) panics when the bit lies past the bitmap's bytes
is_null_panics(a, i) ==
    a.null_bitmap.present /\ a.offset + i >= Len(a.null_bitmap.bits)

\* Array::is_null(i): the bit at offset + i; no bitmap means valid
is_null(a, i) ==
    a.null_bitmap.present /\ ~a.null_bitmap.bits[a.offset + i + 1]

is_valid(a, i) == ~is_null(a, i)

\* PrimitiveArray::value(i) / BooleanArray::value(i) read buffer 0 at
\* offset + i without a bounds check: past the buffer the read is undefined
value_is_ub(a, i) == a.offset + i >= Len(a.buffers[1])

\* the value read; `garbage` stands for what an undefined read yields
value(a, i, garbage) ==
    IF value_is_ub(a, i) THEN garbage ELSE a.buffers[1][a.offset + i + 1]

----------------------------------------------------------------------------
(* Building the input arrays: a vector of optional values *)

Some(v) == [valid |-> TRUE, v |-> v]

\* PrimitiveArray::from(Vec<Option<T>>): a bitmap is always built; the slot
\* under a null holds the type's default value
from_opts(data_type, opts) ==
    ArrayData_new(
        data_type, Len(opts), NoCount,
        Bitmap([k \in 1..(8 * ceil(Len(opts), 8)) |->
                    IF k <= Len(opts) THEN opts[k].valid ELSE FALSE]),
        0,
        <<[k \in 1..Len(opts) |-> opts[k].v]>>,
        <<>>)

\* BooleanArray::from(Vec<Option<bool>>): the values are bit-packed too
from_bool_opts(opts) ==
    ArrayData_new(
        [id |-> "Boolean"], Len(opts), NoCount,
        Bitmap([k \in 1..(8 * ceil(Len(opts), 8)) |->
                    IF k <= Len(opts) THEN opts[k].valid ELSE FALSE]),
        0,
        <<[k \in 1..(8 * ceil(Len(opts), 8)) |->
                    IF k <= Len(opts) THEN opts[k].v ELSE FALSE]>>,
        <<>>)

\* PrimitiveArray::from(Vec<T>): no bitmap
from_vals(data_type, vals) ==
    ArrayData_new(data_type, Len(vals), NoCount, NoBitmap, 0, <<vals>>, <<>>)

\* the physical prefixes an input is sliced past: none (the array is not
\* sliced), or MaxOffset copies of one element
Pads(pad_elems) == {<<>>} \cup {[k \in 1..MaxOffset |-> p] : p \in pad_elems}
Unsliced == {<<>>}

\* primitive arrays of a type: built from options and sliced past a prefix,
\* or built from plain values
PrimitiveArrays(data_type, elems, null_elem, pads) ==
    { ArrayData_slice(from_opts(data_type, pad \o logical), Len(pad), Len(logical)) :
          pad \in pads, logical \in SeqsUpTo(elems \cup {null_elem}, MaxLen) }
    \cup
    { from_vals(data_type, [k \in 1..Len(logical) |-> logical[k].v]) :
          logical \in SeqsUpTo(elems, MaxLen) }

BooleanArrays(elems, pads) ==
    { ArrayData_slice(from_bool_opts(pad \o logical), Len(pad), Len(logical)) :
          pad \in pads, logical \in SeqsUpTo(elems, MaxLen) }

\* running sums: Offsets(lens)[k] is the sum of the first k-1 lengths
RECURSIVE Offsets(_)
Offsets(lens) ==
    IF lens = <<>> THEN <<0>>
    ELSE LET front == Offsets(SubSeq(lens, 1, Len(lens) - 1))
         IN  Append(front, front[Len(front)] + lens[Len(lens)])

\* GenericStringArray::from(Vec<Option<&str>>): offsets, value bytes and a
\* bitmap; a null is a zero-length slot
string_from_opts(data_type, opts) ==
    ArrayData_new(
        data_type, Len(opts), NoCount,
        Bitmap([k \in 1..(8 * ceil(Len(opts), 8)) |->
                    IF k <= Len(opts) THEN opts[k].valid ELSE FALSE]),
        0,
        <<Offsets([k \in 1..Len(opts) |-> Len(opts[k].v)]),
          Flatten([k \in 1..Len(opts) |-> opts[k].v])>>,
        <<>>)

\* GenericStringArray::from(Vec<&str>): no bitmap
string_from_vals(data_type, vals) ==
    ArrayData_new(
        data_type, Len(vals), NoCount, NoBitmap, 0,
        <<Offsets([k \in 1..Len(vals) |-> Len(vals[k])]), Flatten(vals)>>,
        <<>>)

StringArrays(data_type, elems, null_elem, pads) ==
    { ArrayData_slice(string_from_opts(data_type, pad \o logical),
                      Len(pad), Len(logical)) :
          pad \in pads, logical \in SeqsUpTo(elems \cup {null_elem}, MaxLen) }
    \cup
    { string_from_vals(data_type, [k \in 1..Len(logical) |-> logical[k].v]) :
          logical \in SeqsUpTo(elems, MaxLen) }

\* GenericStringArray::value_offset(i)
value_offset(a, i) == a.buffers[1][a.offset + i + 1]

\* GenericStringArray::value(i): the bytes between two offsets; past the
\* array the access is out of bounds
string_value(a, i, garbage) ==
    IF i >= a.len THEN garbage
    ELSE Slice0(a.buffers[2], value_offset(a, i), value_offset(a, i + 1))

\* a list array built from optional lists of optional child values: the
\* offsets are the running sums of the list lengths, the child is the
\* concatenation of the lists
list_from_opts(data_type, child_type, opts) ==
    ArrayData_new(
        data_type, Len(opts), NoCount,
        Bitmap([k \in 1..(8 * ceil(Len(opts), 8)) |->
                    IF k <= Len(opts) THEN opts[k].valid ELSE FALSE]),
        0,
        <<Offsets([k \in 1..Len(opts) |-> Len(opts[k].v)])>>,
        <<from_opts(child_type, Flatten([k \in 1..Len(opts) |-> opts[k].v]))>>)

ListArrays(data_type, child_type, elems, pads) ==
    { ArrayData_slice(list_from_opts(data_type, child_type, pad \o logical),
                      Len(pad), Len(logical)) :
          pad \in pads, logical \in SeqsUpTo(elems, MaxLen) }

\* a fixed-size-list array: no offsets, the child holds `length` values per
\* position, nulls included
fixed_size_list_from_opts(length, child_type, opts) ==
    ArrayData_new(
        [id |-> "FixedSizeList", length |-> length], Len(opts), NoCount,
        Bitmap([k \in 1..(8 * ceil(Len(opts), 8)) |->
                    IF k <= Len(opts) THEN opts[k].valid ELSE FALSE]),
        0,
        <<>>,
        <<from_opts(child_type, Flatten([k \in 1..Len(opts) |-> opts[k].v]))>>)

FixedSizeListArrays(length, child_type, elems, pads) ==
    { ArrayData_slice(fixed_size_list_from_opts(length, child_type, pad \o logical),
                      Len(pad), Len(logical)) :
          pad \in pads, logical \in SeqsUpTo(elems, MaxLen) }

\* a dictionary array: the keys' ArrayData, retagged, with the dictionary
\* values as its only child
dictionary_from_keys(keys, dict_values) ==
    [keys EXCEPT !.data_type = [id |-> "Dictionary", key |-> keys.data_type.id],
                 !.child_data = <<dict_values>>]

\* DictionaryArray::keys_array: the keys as a primitive array over the same
\* buffers, bitmap and offset
keys_array(dict) ==
    ArrayData_new([id |-> dict.data_type.key], dict.len,
                  SomeCount(dict.null_count), dict.null_bitmap, dict.offset,
                  dict.buffers, <<>>)

----------------------------------------------------------------------------
(* Loops whose body can fail *)

Pass == [kind |-> "Pass"]

\* a loop over positions 0..n-1, given the outcome of its body at every
\* position: it returns at the first position whose body fails (an Err
\* through `?`, or a panic), else it completes with `done`
LoopResult(steps, done) ==
    LET failing == {i \in DOMAIN steps : steps[i].kind # "Pass"}
    IN  IF failing = {} THEN done ELSE steps[Min(failing)]

\* what an undefined (unchecked, out of buffer) read does in a build: it
\* aborts, or it yields some value
UBOutcomes ==
    {[panics |-> TRUE, int |-> 0, bool |-> FALSE, str |-> <<>>],
     [panics |-> FALSE, int |-> 99, bool |-> TRUE, str |-> <<99>>]}

UBAbort == Panic("out of bounds read")
\* unimplemented!("Take not supported for ...")
Unimplemented == Panic("not implemented")
BitmapPanic == Panic("index out of bounds")

----------------------------------------------------------------------------
(* take for primitive and boolean arrays *)

take_primitive(values, indices, ub) ==
    LET data_len == indices.len
        array == values
        null_count == array.null_count
        index(i) == to_usize(value(indices, i, 0))
        step(i) ==
            IF ~index(i).ok THEN CastFailed
            ELSE IF null_count # 0 /\ is_null_panics(array, index(i).v)
                 THEN BitmapPanic
            ELSE IF value_is_ub(array, index(i).v) /\ ub.panics THEN UBAbort
            ELSE Pass
        buffer == [k \in 1..data_len |-> value(array, index(k - 1).v, ub.int)]
        num_bytes == ceil(data_len, 8)
        null_buf ==
            unset_bits(with_bitset(num_bytes, TRUE),
                       {i \in 0..(data_len - 1) : is_null(array, index(i).v)})
        nulls ==
            IF null_count = 0 THEN indices.null_bitmap
            ELSE IF indices.null_bitmap.present
                 THEN Bitmap(buffer_bin_and(indices.null_bitmap.bits, 0,
                                            null_buf, 0, indices.len))
                 ELSE Bitmap(null_buf)
        data == ArrayData_new(array.data_type, indices.len, NoCount, nulls, 0,
                              <<buffer>>, <<>>)
    IN  LoopResult([i \in 0..(data_len - 1) |-> step(i)], Ok(data))

take_boolean(values, indices, ub) ==
    LET data_len == indices.len
        array == values
        num_byte == ceil(data_len, 8)
        null_count == array.null_count
        index(i) == to_usize(value(indices, i, 0))
        step(i) ==
            IF ~index(i).ok THEN CastFailed
            ELSE IF null_count = 0
                 THEN IF value_is_ub(array, index(i).v) /\ ub.panics
                      THEN UBAbort ELSE Pass
            ELSE IF is_null_panics(array, index(i).v) THEN BitmapPanic
            ELSE IF ~is_null(array, index(i).v)
                    /\ value_is_ub(array, index(i).v) /\ ub.panics
                 THEN UBAbort
            ELSE Pass
        val_buf ==
            set_bits(with_bitset(num_byte, FALSE),
                     {i \in 0..(data_len - 1) :
                         /\ null_count = 0 \/ ~is_null(array, index(i).v)
                         /\ value(array, index(i).v, ub.bool)})
        null_buf ==
            unset_bits(with_bitset(num_byte, TRUE),
                       {i \in 0..(data_len - 1) : is_null(array, index(i).v)})
        nulls ==
            IF null_count = 0 THEN indices.null_bitmap
            ELSE IF indices.null_bitmap.present
                 THEN Bitmap(buffer_bin_and(indices.null_bitmap.bits, 0,
                                            null_buf, 0, indices.len))
                 ELSE Bitmap(null_buf)
        data == ArrayData_new([id |-> "Boolean"], indices.len, NoCount, nulls, 0,
                              <<val_buf>>, <<>>)
    IN  LoopResult([i \in 0..(data_len - 1) |-> step(i)], Ok(data))

----------------------------------------------------------------------------
(* take for string arrays *)

\* the branch of take_string that the null counts select
string_branch(array, indices) ==
    IF array.null_count = 0 /\ indices.null_count = 0 THEN "none"
    ELSE IF indices.null_count = 0 THEN "values"
    ELSE IF array.null_count = 0 THEN "indices"
    ELSE "both"

\* the body of one branch of take_string, and the array built after it
take_string_branch(values, indices, ub, branch) ==
    LET data_len == indices.len
        array == values
        index(i) == to_usize(value(indices, i, 0))
        \* whether the body at position i reads array.value(index)
        reads(i) ==
            CASE branch = "none"    -> TRUE
              [] branch = "values"  -> is_valid(array, index(i).v)
              [] branch = "indices" -> is_valid(indices, i)
              [] branch = "both"    -> is_valid(array, index(i).v)
                                       /\ is_valid(indices, i)
        step(i) ==
            IF branch = "indices" /\ ~is_valid(indices, i) THEN Pass
            ELSE IF ~index(i).ok THEN CastFailed
            ELSE IF branch \in {"values", "both"}
                    /\ is_null_panics(array, index(i).v)
                 THEN BitmapPanic
            ELSE IF reads(i) /\ index(i).v >= array.len /\ ub.panics
                 THEN Panic("StringArray out of bounds access")
            ELSE Pass
        s(i) == IF reads(i) THEN string_value(array, index(i).v, ub.str)
                ELSE <<>>
        offsets == Offsets([k \in 1..data_len |-> Len(s(k - 1))])
        bytes == Flatten([k \in 1..data_len |-> s(k - 1)])
        num_bytes == ceil(data_len, 8)
        null_buf ==
            unset_bits(with_bitset(num_bytes, TRUE),
                       {i \in 0..(data_len - 1) : ~reads(i)})
        nulls ==
            CASE branch = "none"    -> NoBitmap
              [] branch = "values"  -> Bitmap(null_buf)
              [] branch = "indices" -> indices.null_bitmap
              [] branch = "both"    ->
                    IF indices.null_bitmap.present
                    THEN Bitmap(buffer_bin_and(indices.null_bitmap.bits, 0,
                                               null_buf, 0, data_len))
                    ELSE Bitmap(null_buf)
        data == ArrayData_new(array.data_type, data_len, NoCount, nulls, 0,
                              <<offsets, bytes>>, <<>>)
    IN  LoopResult([i \in 0..(data_len - 1) |-> step(i)], Ok(data))

take_string(values, indices, ub) ==
    take_string_branch(values, indices, ub, string_branch(values, indices))

----------------------------------------------------------------------------
(* TakeOptions *)

TakeOptions(check_bounds) == [check_bounds |-> check_bounds]

\* a default that checks bounds
TakeOptions_default_checked == TakeOptions(TRUE)

\* impl Default for TakeOptions
TakeOptions_default == TakeOptions(FALSE)

NoOptions == [some |-> FALSE, v |-> TakeOptions_default]
SomeOptions(o) == [some |-> TRUE, v |-> o]

\* Option::unwrap_or_default
unwrap_or_default(options) == IF options.some THEN options.v ELSE TakeOptions_default

OutOfBounds(ix, len) ==
    ComputeError(<<"Array index out of bounds, cannot get item at index", ix,
                   "from", len, "entries">>)

\* a validation pass that lets the index values.len through
check_bounds_pass_off_by_one(values, indices) ==
    LET len == values.len
        ix(i) == to_usize(value(indices, i, 0))
        step(i) ==
            IF is_valid(indices, i)
            THEN IF ~ix(i).ok THEN CastFailed
                 ELSE IF ix(i).v > len THEN OutOfBounds(ix(i).v, len)
                 ELSE Pass
            ELSE Pass
    IN  LoopResult([i \in 0..(indices.len - 1) |-> step(i)], Pass)

\* a validation pass that reports the last failing index instead of the first
check_bounds_pass_last_failure(values, indices) ==
    LET len == values.len
        ix(i) == to_usize(value(indices, i, 0))
        step(i) ==
            IF is_valid(indices, i)
            THEN IF ~ix(i).ok THEN CastFailed
                 ELSE IF ix(i).v >= len THEN OutOfBounds(ix(i).v, len)
                 ELSE Pass
            ELSE Pass
        n == indices.len
    IN  LoopResult([i \in 0..(n - 1) |-> step(n - 1 - i)], Pass)

\* the validation pass of take_impl under check_bounds
check_bounds_pass(values, indices) ==
    LET len == values.len
        ix(i) == to_usize(value(indices, i, 0))
        step(i) ==
            IF is_valid(indices, i)
            THEN IF ~ix(i).ok THEN CastFailed
                 ELSE IF ix(i).v >= len THEN OutOfBounds(ix(i).v, len)
                 ELSE Pass
            ELSE Pass
    IN  LoopResult([i \in 0..(indices.len - 1) |-> step(i)], Pass)

\* the type tags that take_impl routes to take_primitive
PrimitiveTypes ==
    {"Int8", "Int16", "Int32", "Int64", "UInt8", "UInt16", "UInt32", "UInt64",
     "Float32", "Float64", "Date32", "Date64",
     "Time32(Second)", "Time32(Millisecond)",
     "Time64(Microsecond)", "Time64(Nanosecond)",
     "Timestamp(Second)", "Timestamp(Millisecond)",
     "Timestamp(Microsecond)", "Timestamp(Nanosecond)",
     "Interval(YearMonth)", "Interval(DayTime)",
     "Duration(Second)", "Duration(Millisecond)",
     "Duration(Microsecond)", "Duration(Nanosecond)"}
\* the key types that take_impl routes to take_dict
DictionaryKeyTypes ==
    {"Int8", "Int16", "Int32", "Int64", "UInt8", "UInt16", "UInt32", "UInt64"}
StringTypes == {"Utf8", "LargeUtf8"}
ListTypes == {"List", "LargeList"}

RECURSIVE take_impl(_, _, _, _)

----------------------------------------------------------------------------
(* take for list, fixed-size-list and dictionary arrays *)

\* compute::util::take_value_indices_from_list: for every valid index the
\* child range of the source list, flattened into an index array of the
\* offset type, and the offsets of the output
take_value_indices_from_list(list, indices, offset_type) ==
    LET offsets == [k \in 1..(list.len + 1) |-> list.buffers[1][list.offset + k]]
        ix(i) == to_usize(value(indices, i, 0))
        step(i) ==
            IF ~is_valid(indices, i) THEN Pass
            ELSE IF ~ix(i).ok THEN CastFailed
            ELSE IF ix(i).v + 1 >= Len(offsets) THEN BitmapPanic
            ELSE Pass
        start(i) == offsets[ix(i).v + 1]
        end(i) == offsets[ix(i).v + 2]
        range(i) ==
            IF is_valid(indices, i)
            THEN [k \in 1..(end(i) - start(i)) |-> Some(start(i) + k - 1)]
            ELSE <<>>
        new_offsets == Offsets([k \in 1..indices.len |-> Len(range(k - 1))])
        vals == Flatten([k \in 1..indices.len |-> range(k - 1)])
    IN  LoopResult([i \in 0..(indices.len - 1) |-> step(i)],
                   [kind |-> "Pass",
                    list_indices |-> from_opts([id |-> offset_type], vals),
                    offsets |-> new_offsets])

\* a take_list that takes the child with the caller's indices instead of
\* the flattened child indices
take_list_wrong_indices(values, indices, offset_type, ub) ==
    LET list == values
        r == take_value_indices_from_list(list, indices, offset_type)
        taken == take_impl(list.child_data[1], indices, NoOptions, ub)
        offsets == r.offsets
        num_bytes == ceil(indices.len, 8)
        nulled == {i \in 0..(indices.len - 1) : offsets[i + 1] = offsets[i + 2]}
        null_count == Cardinality(nulled)
        null_buf == unset_bits(with_bitset(num_bytes, TRUE), nulled)
        list_data ==
            ArrayData_new(list.data_type, indices.len, SomeCount(null_count),
                          Bitmap(null_buf), 0, <<offsets>>, <<taken.array>>)
    IN  IF r.kind # "Pass" THEN r
        ELSE IF taken.kind # "Ok" THEN taken
        ELSE Ok(list_data)

\* a take_list that records a null count of 0 whatever the bitmap it builds
take_list_uncounted(values, indices, offset_type, ub) ==
    LET list == values
        r == take_value_indices_from_list(list, indices, offset_type)
        taken == take_impl(list.child_data[1], r.list_indices, NoOptions, ub)
        offsets == r.offsets
        num_bytes == ceil(indices.len, 8)
        nulled == {i \in 0..(indices.len - 1) : offsets[i + 1] = offsets[i + 2]}
        null_buf == unset_bits(with_bitset(num_bytes, TRUE), nulled)
        list_data ==
            ArrayData_new(list.data_type, indices.len, SomeCount(0),
                          Bitmap(null_buf), 0, <<offsets>>, <<taken.array>>)
    IN  IF r.kind # "Pass" THEN r
        ELSE IF taken.kind # "Ok" THEN taken
        ELSE Ok(list_data)

take_list(values, indices, offset_type, ub) ==
    LET list == values
        r == take_value_indices_from_list(list, indices, offset_type)
        taken == take_impl(list.child_data[1], r.list_indices, NoOptions, ub)
        offsets == r.offsets
        num_bytes == ceil(indices.len, 8)
        nulled == {i \in 0..(indices.len - 1) : offsets[i + 1] = offsets[i + 2]}
        null_count == Cardinality(nulled)
        null_buf == unset_bits(with_bitset(num_bytes, TRUE), nulled)
        list_data ==
            ArrayData_new(list.data_type, indices.len, SomeCount(null_count),
                          Bitmap(null_buf), 0, <<offsets>>, <<taken.array>>)
    IN  IF r.kind # "Pass" THEN r
        ELSE IF taken.kind # "Ok" THEN taken
        ELSE Ok(list_data)

\* compute::util::take_value_indices_from_fixed_size_list: for every valid
\* index the `length` child positions of the source position
take_value_indices_from_fixed_size_list(list, indices, length) ==
    LET start(i) == (list.offset + value(indices, i, 0)) * length
        range(i) ==
            IF is_valid(indices, i) THEN [k \in 1..length |-> start(i) + k - 1]
            ELSE <<>>
    IN  from_vals([id |-> "Int32"], Flatten([k \in 1..indices.len |-> range(k - 1)]))

take_fixed_size_list(values, indices, length, ub) ==
    LET list == values
        list_indices == take_value_indices_from_fixed_size_list(list, indices, length)
        taken == take_impl(list.child_data[1], list_indices, NoOptions, ub)
        step(i) ==
            IF is_valid(indices, i) /\ is_null_panics(list, value(indices, i, 0))
            THEN BitmapPanic ELSE Pass
        nulled ==
            {i \in 0..(indices.len - 1) :
                ~is_valid(indices, i) \/ is_null(list, value(indices, i, 0))}
        null_count == Cardinality(nulled)
        num_bytes == ceil(indices.len, 8)
        null_buf == unset_bits(with_bitset(num_bytes, TRUE), nulled)
        list_data ==
            ArrayData_new(list.data_type, indices.len, SomeCount(null_count),
                          Bitmap(null_buf), 0, <<>>, <<taken.array>>)
    IN  IF indices.data_type.id # "Int32"
        THEN Panic("FixedSizeListArray's indices type should be 32-bit signed integer")
        ELSE IF taken.kind # "Ok" THEN taken
        ELSE LoopResult([i \in 0..(indices.len - 1) |-> step(i)], Ok(list_data))

take_dict(values, indices, ub) ==
    LET dict == values
        keys == keys_array(dict)
        new_keys == take_primitive(keys, indices, ub)
        new_keys_data == new_keys.array
        data ==
            ArrayData_new(dict.data_type, new_keys_data.len,
                          SomeCount(new_keys_data.null_count),
                          new_keys_data.null_bitmap, 0,
                          new_keys_data.buffers, dict.child_data)
    IN  IF new_keys.kind # "Ok" THEN new_keys ELSE Ok(data)

----------------------------------------------------------------------------
(* take for struct arrays *)

\* StructArray::from(Vec<(Field, ArrayRef)>): the length of the first field,
\* no null bitmap, the fields as children
StructArray_from(data_type, arrays) ==
    ArrayData_new(data_type, arrays[1].len, NoCount, NoBitmap, 0, <<>>, arrays)

\* a struct take that keeps the fields taken and drops the fields that failed
take_struct_partial(values, indices, opts, ub) ==
    LET columns == values.child_data
        arrays == [j \in 1..Len(columns) |->
                      take_impl(columns[j], indices, SomeOptions(opts), ub)]
        taken == SelectSeq(arrays, LAMBDA r : r.kind = "Ok")
    IN  IF Len(taken) = 0 THEN arrays[1]
        ELSE Ok(StructArray_from(values.data_type,
                                 [j \in 1..Len(taken) |-> taken[j].array]))

\* the Struct arm of take_impl: every column is taken with the same indices
\* and the caller's options; the first column that fails ends the call
take_struct(values, indices, opts, ub) ==
    LET columns == values.child_data
        arrays == [j \in 1..Len(columns) |->
                      take_impl(columns[j], indices, SomeOptions(opts), ub)]
        failing == {j \in 1..Len(columns) : arrays[j].kind # "Ok"}
    IN  IF failing # {} THEN arrays[Min(failing)]
        ELSE IF Len(columns) = 0 THEN BitmapPanic
        ELSE Ok(StructArray_from(values.data_type,
                                 [j \in 1..Len(columns) |-> arrays[j].array]))

----------------------------------------------------------------------------
(* The dispatch *)

\* a dispatch that routes the type tags it does not know to take_primitive,
\* and the dictionary key types it does not know to take_dict
take_impl_with_fallback(values, indices, options, ub) ==
    LET opts == unwrap_or_default(options)
        checked == IF opts.check_bounds THEN check_bounds_pass(values, indices)
                   ELSE Pass
        id == values.data_type.id
    IN  IF checked.kind # "Pass" THEN checked
        ELSE IF id = "Boolean" THEN take_boolean(values, indices, ub)
        ELSE IF id \in StringTypes THEN take_string(values, indices, ub)
        ELSE IF id = "List" THEN take_list(values, indices, "Int32", ub)
        ELSE IF id = "LargeList" THEN take_list(values, indices, "Int64", ub)
        ELSE IF id = "FixedSizeList"
             THEN take_fixed_size_list(values, indices, values.data_type.length, ub)
        ELSE IF id = "Struct" THEN take_struct(values, indices, opts, ub)
        ELSE IF id = "Dictionary" THEN take_dict(values, indices, ub)
        ELSE take_primitive(values, indices, ub)

take_impl(values, indices, options, ub) ==
    LET opts == unwrap_or_default(options)
        checked == IF opts.check_bounds THEN check_bounds_pass(values, indices)
                   ELSE Pass
        id == values.data_type.id
    IN  IF checked.kind # "Pass" THEN checked
        ELSE IF id = "Boolean" THEN take_boolean(values, indices, ub)
        ELSE IF id \in PrimitiveTypes THEN take_primitive(values, indices, ub)
        ELSE IF id \in StringTypes THEN take_string(values, indices, ub)
        ELSE IF id = "List" THEN take_list(values, indices, "Int32", ub)
        ELSE IF id = "LargeList" THEN take_list(values, indices, "Int64", ub)
        ELSE IF id = "FixedSizeList"
             THEN take_fixed_size_list(values, indices, values.data_type.length, ub)
        ELSE IF id = "Struct" THEN take_struct(values, indices, opts, ub)
        ELSE IF id = "Dictionary"
             THEN IF values.data_type.key \in DictionaryKeyTypes
                  THEN take_dict(values, indices, ub)
                  ELSE Unimplemented
        ELSE Unimplemented

take(values, indices, options, ub) == take_impl(values, indices, options, ub)

----------------------------------------------------------------------------
(* Equality of primitive arrays (array/equal/primitive.rs) *)

Returned(b) == [kind |-> "Bool", v |-> b]

\* size_of::<T>() for a 16-bit T
byte_width == 2

\* the little-endian bytes of a 16-bit value
to_bytes(v) == <<(v % 65536) % 256, (v % 65536) \div 256>>

\* buffers()[0].data(): the bytes of the value buffer
buffer_data(a) ==
    Flatten([k \in 1..Len(a.buffers[1]) |-> to_bytes(a.buffers[1][k])])

\* the bytes of the value buffer from its first byte, whatever the offset
values_from_start(a) == buffer_data(a)

\* &buffers()[0].data()[offset * byte_width..]
values_from_offset(a) ==
    SubSeq(buffer_data(a), a.offset * byte_width + 1, Len(buffer_data(a)))

\* utils::equal_len: the two byte ranges of `len` bytes are equal
equal_len(lhs_values, rhs_values, lhs_start, rhs_start, len) ==
    Slice0(lhs_values, lhs_start, lhs_start + len)
        = Slice0(rhs_values, rhs_start, rhs_start + len)

\* a comparison of slices that takes len for a number of bytes
compare_slices_in_elements(lhs_values, rhs_values, lhs_start, rhs_start, len) ==
    equal_len(lhs_values, rhs_values,
              lhs_start * byte_width, rhs_start * byte_width, len)

\* without nulls: one comparison of the two byte ranges
compare_slices(lhs_values, rhs_values, lhs_start, rhs_start, len) ==
    equal_len(lhs_values, rhs_values,
              lhs_start * byte_width, rhs_start * byte_width, len * byte_width)

primitive_equal(lhs, rhs, lhs_start, rhs_start, len) ==
    LET lhs_values == values_from_offset(lhs)
        rhs_values == values_from_offset(rhs)
    IN  IF lhs.null_count = 0 /\ rhs.null_count = 0
        THEN compare_slices(lhs_values, rhs_values, lhs_start, rhs_start, len)
        ELSE \A i \in 0..(len - 1) :
                LET lhs_pos == lhs_start + i
                    rhs_pos == rhs_start + i
                    lhs_is_null == is_null(lhs, lhs_pos)
                    rhs_is_null == is_null(rhs, rhs_pos)
                IN  \/ lhs_is_null
                    \/ /\ lhs_is_null = rhs_is_null
                       /\ equal_len(lhs_values, rhs_values,
                                    lhs_pos * byte_width, rhs_pos * byte_width,
                                    byte_width)

----------------------------------------------------------------------------
(* The inputs *)

None32 == [valid |-> FALSE, v |-> 0]
NoneBool == [valid |-> FALSE, v |-> FALSE]
NoneStr == [valid |-> FALSE, v |-> <<>>]
NoneList == [valid |-> FALSE, v |-> <<>>]

\* index values: positions of the values array and one past the longest
IndexElems == {Some(n) : n \in 0..MaxLen}

UInt32Indices ==
    PrimitiveArrays([id |-> "UInt32"], IndexElems, None32, Pads({None32, Some(0)}))

Int32Indices ==
    PrimitiveArrays([id |-> "Int32"], IndexElems, None32, Unsliced)

IndexArrays == UInt32Indices \cup Int32Indices

Int32Arrays ==
    PrimitiveArrays([id |-> "Int32"], {Some(7), Some(9)}, None32,
                    Pads({None32, Some(8)}))

BoolArrays ==
    BooleanArrays({NoneBool, Some(TRUE), Some(FALSE)}, Pads({NoneBool, Some(TRUE)}))

\* the strings "", "a" and "bc" as bytes
StringElems == {Some(<<>>), Some(<<1>>), Some(<<2, 3>>)}

Utf8Arrays ==
    StringArrays([id |-> "Utf8"], StringElems, NoneStr, Pads({NoneStr, Some(<<4>>)}))
    \cup StringArrays([id |-> "LargeUtf8"], StringElems, NoneStr, Unsliced)

\* lists over an Int32 child: a null list, an empty list, lists with and
\* without null children, and a null slot over a non-empty child range
ListElems ==
    {NoneList, Some(<<>>), Some(<<Some(7)>>), Some(<<None32, Some(9)>>),
     [valid |-> FALSE, v |-> <<Some(5)>>]}

LargeListInputs ==
    ListArrays([id |-> "LargeList"], [id |-> "Int32"], ListElems, Unsliced)

ListInputs ==
    ListArrays([id |-> "List"], [id |-> "Int32"], ListElems,
               Pads({NoneList, Some(<<Some(3)>>)}))
    \cup LargeListInputs

\* fixed-size lists: a null position (its children null), a list of valid
\* children and a list whose first child is null
FixedSizeListElems ==
    {[valid |-> FALSE, v |-> [k \in 1..FixedSize |-> None32]],
     Some([k \in 1..FixedSize |-> Some(6 + k)]),
     Some([k \in 1..FixedSize |-> IF k = 1 THEN None32 ELSE Some(3 + k)])}

FixedSizeListInputs ==
    FixedSizeListArrays(FixedSize, [id |-> "Int32"], FixedSizeListElems,
                        Pads({Some([k \in 1..FixedSize |-> Some(3)])}))

\* the dictionary values "foo" and "bar", as bytes
DictValues ==
    string_from_vals([id |-> "Utf8"], <<<<1, 2, 2>>, <<3, 4, 5>>>>)

DictionaryInputs ==
    {dictionary_from_keys(k, DictValues) :
        k \in PrimitiveArrays([id |-> "Int8"], {Some(0), Some(1)}, None32,
                              Pads({None32, Some(1)}))}

\* a struct array as the tests build it: a null count of 0, no bitmap, and
\* one child per field, all of the struct's length
struct_from_fields(children) ==
    ArrayData_new([id |-> "Struct"], children[1].len, SomeCount(0), NoBitmap, 0,
                  <<>>, children)

\* structs of a boolean field "a" and an Int32 field "b"
StructInputs ==
    UNION {{struct_from_fields(<<a, b>>) :
                b \in {x \in PrimitiveArrays([id |-> "Int32"], {Some(7)}, None32,
                                              Unsliced) : x.len = a.len}} :
           a \in BooleanArrays({NoneBool, Some(TRUE)}, Unsliced)}

\* signed index arrays with a negative entry
SignedIndices ==
    {x \in PrimitiveArrays([id |-> "Int32"], {Some(-1), Some(0), Some(1)}, None32,
                           Unsliced) :
        \E k \in 1..x.len : x.buffers[1][k] < 0}

\* index arrays with a null slot whose raw value is not a position: -1 under
\* the nulls of a signed array, MaxLen under the nulls of an unsigned one
NullRawIndices ==
    {x \in PrimitiveArrays([id |-> "Int32"], {Some(0), Some(1)},
                           [valid |-> FALSE, v |-> -1], Unsliced)
           \cup PrimitiveArrays([id |-> "UInt32"], {Some(0), Some(1)},
                                [valid |-> FALSE, v |-> MaxLen], Unsliced) :
        x.null_count > 0}

\* no primitive_equal call
NoEqualArgs == [lhs_start |-> 0, rhs_start |-> 0, len |-> 0]

\* 16-bit arrays: the values 1 and 256, and nulls over the raw values 0 and 1
Int16Arrays ==
    PrimitiveArrays([id |-> "Int16"], {Some(1), Some(256)}, None32,
                    Pads({Some(257)}))
    \cup PrimitiveArrays([id |-> "Int16"], {Some(1), [valid |-> FALSE, v |-> 1]},
                         None32, Pads({Some(257)}))

\* the arguments of a primitive_equal call
EqualArgs(lhs, rhs, lhs_start, rhs_start, len) ==
    [lhs |-> lhs, rhs |-> rhs, lhs_start |-> lhs_start, rhs_start |-> rhs_start,
     len |-> len]

\* one small array of every type tag family that take_impl routes
SupportedInputs ==
    {from_bool_opts(<<Some(TRUE), NoneBool>>),
     from_vals([id |-> "Int32"], <<7, 9>>),
     from_opts([id |-> "Int16"], <<Some(7), None32>>),
     from_vals([id |-> "Float64"], <<7>>),
     from_vals([id |-> "Timestamp(Second)"], <<7>>),
     string_from_opts([id |-> "Utf8"], <<Some(<<1>>), NoneStr>>),
     string_from_vals([id |-> "LargeUtf8"], <<<<2, 3>>>>),
     list_from_opts([id |-> "List"], [id |-> "Int32"],
                    <<Some(<<Some(7)>>), NoneList>>),
     list_from_opts([id |-> "LargeList"], [id |-> "Int32"], <<Some(<<Some(7)>>)>>),
     fixed_size_list_from_opts(FixedSize, [id |-> "Int32"],
                               <<Some([k \in 1..FixedSize |-> Some(6 + k)])>>),
     struct_from_fields(<<from_bool_opts(<<Some(TRUE)>>),
                          from_vals([id |-> "Int32"], <<7>>)>>),
     dictionary_from_keys(from_opts([id |-> "Int8"], <<Some(1), None32>>),
                          DictValues),
     dictionary_from_keys(from_vals([id |-> "UInt16"], <<0>>), DictValues),
     ArrayData_slice(from_opts([id |-> "Int32"], <<None32, Some(7), Some(9)>>), 1, 2),
     ArrayData_slice(list_from_opts([id |-> "List"], [id |-> "Int32"],
                                    <<NoneList, Some(<<None32, Some(9)>>), Some(<<>>)>>),
                     1, 2)}

\* arrays whose type tag, or dictionary key type, take_impl has no arm for:
\* a half float, a binary array, a time of a unit the type does not have, and
\* dictionaries keyed by a float and by a string
UnsupportedInputs ==
    {from_vals([id |-> "Float16"], <<7>>),
     string_from_vals([id |-> "Binary"], <<<<1>>>>),
     from_opts([id |-> "Time32(Microsecond)"], <<Some(7), None32>>),
     dictionary_from_keys(from_vals([id |-> "Float32"], <<0>>), DictValues),
     dictionary_from_keys(from_vals([id |-> "Utf8"], <<0>>), DictValues)}

OptionsInputs ==
    {NoOptions} \cup {SomeOptions(TakeOptions(b)) : b \in BOOLEAN}

----------------------------------------------------------------------------
(* The state machine *)

\* a call not yet made, over a values array of V and an index array of I
Inputs(V, I) ==
    /\ arg_values \in V
    /\ arg_indices \in I
    /\ arg_options = NoOptions
    /\ equal_args = NoEqualArgs
    /\ call = "none"
    /\ result = NoResult

InitFlat ==
    \/ Inputs(Int32Arrays, IndexArrays)
    \/ Inputs(BoolArrays, IndexArrays)

InitList == Inputs(ListInputs, UInt32Indices)

Init ==
    \/ InitFlat
    \/ Inputs(Utf8Arrays, IndexArrays)
    \/ Inputs(ListInputs, IndexArrays)
    \/ Inputs(FixedSizeListInputs, IndexArrays)
    \/ Inputs(DictionaryInputs, IndexArrays)
    \/ Inputs(StructInputs, IndexArrays)
    \/ Inputs(Int32Arrays \cup BoolArrays \cup Utf8Arrays \cup ListInputs
                  \cup DictionaryInputs \cup StructInputs,
              SignedIndices)
    \/ Inputs(Int32Arrays \cup BoolArrays \cup Utf8Arrays \cup ListInputs
                  \cup FixedSizeListInputs \cup DictionaryInputs \cup StructInputs,
              NullRawIndices)

\* a primitive_equal call not yet made: two arrays and an in-range range of
\* each, of one length
InitEqual ==
    /\ \E l \in Int16Arrays, r \in Int16Arrays, n \in 0..MaxLen :
          /\ n <= l.len /\ n <= r.len
          /\ \E ls \in 0..(l.len - n), rs \in 0..(r.len - n) :
                equal_args = EqualArgs(l, r, ls, rs, n)
    /\ arg_values = from_vals([id |-> "Int16"], <<>>)
    /\ arg_indices = from_vals([id |-> "UInt32"], <<>>)
    /\ arg_options = NoOptions
    /\ call = "none"
    /\ result = NoResult

PrimitiveEqual ==
    /\ call = "none"
    /\ result' = Returned(primitive_equal(equal_args.lhs, equal_args.rhs,
                                            equal_args.lhs_start,
                                            equal_args.rhs_start, equal_args.len))
    /\ call' = "primitive_equal"
    /\ UNCHANGED <<arg_values, arg_indices, arg_options, equal_args>>

\* pub fn take: the index array is a UInt32Array
Take ==
    /\ call = "none"
    /\ arg_indices.data_type.id = "UInt32"
    /\ \E o \in OptionsInputs, ub \in UBOutcomes :
          /\ arg_options' = o
          /\ result' = take(arg_values, arg_indices, o, ub)
    /\ call' = "take"
    /\ UNCHANGED <<arg_values, arg_indices, equal_args>>

\* take_impl with an index array of another integer type
TakeImpl ==
    /\ call = "none"
    /\ arg_indices.data_type.id # "UInt32"
    /\ \E o \in OptionsInputs, ub \in UBOutcomes :
          /\ arg_options' = o
          /\ result' = take_impl(arg_values, arg_indices, o, ub)
    /\ call' = "take_impl"
    /\ UNCHANGED <<arg_values, arg_indices, equal_args>>

\* take_fixed_size_list called directly, with its own length argument
TakeFixedSizeList ==
    /\ call = "none"
    /\ arg_values.data_type.id = "FixedSizeList"
    /\ arg_indices.data_type.id = "Int32"
    /\ \E ub \in UBOutcomes :
          result' = take_fixed_size_list(arg_values, arg_indices,
                                         arg_values.data_type.length, ub)
    /\ call' = "take_fixed_size_list"
    /\ UNCHANGED <<arg_values, arg_indices, arg_options, equal_args>>

Next == Take \/ TakeImpl \/ TakeFixedSizeList

\* every layout, every entry point
Spec == Init /\ [][Next]_vars

NextTake == Take \/ TakeImpl

\* primitive and boolean values
SpecFlat == InitFlat /\ [][NextTake]_vars

\* list and large-list values, through the public take
SpecList == InitList /\ [][Take]_vars

\* primitive_equal over 16-bit arrays
SpecEqual == InitEqual /\ [][PrimitiveEqual]_vars

InitNested == Inputs(StructInputs \cup LargeListInputs, UInt32Indices \cup SignedIndices)

\* struct and large-list values, unsigned and signed indices
SpecNested == InitNested /\ [][NextTake]_vars

InitDispatch == Inputs(SupportedInputs \cup UnsupportedInputs, IndexArrays)

\* one array of every type tag, supported or not, through take and take_impl
SpecDispatch == InitDispatch /\ [][NextTake]_vars

----------------------------------------------------------------------------
(* Vocabulary of the properties *)

Called == call # "none"

IsFlat(a) == a.data_type.id \in PrimitiveTypes \cup {"Boolean"}

\* the raw index stored at position i of the index array
IndexAt(ix, i) == ix.buffers[1][ix.offset + i + 1]

\* every non-null index lies in [0, values.len)
InRange(vals, ix) ==
    \A i \in 0..(ix.len - 1) :
        is_valid(ix, i) => IndexAt(ix, i) >= 0 /\ IndexAt(ix, i) < vals.len

\* the bitmap of a view, moved to bit 0 and padded to whole bytes
CompactBitmap(a) ==
    IF a.null_bitmap.present
    THEN Bitmap([k \in 1..(8 * ceil(a.len, 8)) |->
                    IF k <= a.len THEN a.null_bitmap.bits[a.offset + k] ELSE FALSE])
    ELSE NoBitmap

\* the offsets of a view, rebased to start at 0
CompactOffsets(a) ==
    [k \in 1..(a.len + 1) |-> a.buffers[1][a.offset + k] - a.buffers[1][a.offset + 1]]

\* the unsliced array of the same logical content as the view a: offset 0,
\* and only the bits, values, bytes and children of the view
RECURSIVE Compact(_)
Compact(a) ==
    LET id == a.data_type.id
        first == a.buffers[1][a.offset + 1]
        last == a.buffers[1][a.offset + a.len + 1]
        base == [a EXCEPT !.offset = 0, !.null_bitmap = CompactBitmap(a)]
    IN  IF id = "Boolean"
        THEN [base EXCEPT !.buffers =
                 <<[k \in 1..(8 * ceil(a.len, 8)) |->
                       IF k <= a.len THEN a.buffers[1][a.offset + k] ELSE FALSE]>>]
        ELSE IF id \in StringTypes
        THEN [base EXCEPT !.buffers =
                 <<CompactOffsets(a), Slice0(a.buffers[2], first, last)>>]
        ELSE IF id \in ListTypes
        THEN [base EXCEPT !.buffers = <<CompactOffsets(a)>>,
                          !.child_data =
                              <<Compact(ArrayData_slice(a.child_data[1], first,
                                                        last - first))>>]
        ELSE IF id = "FixedSizeList"
        THEN [base EXCEPT !.child_data =
                 <<Compact(ArrayData_slice(a.child_data[1],
                                           a.offset * a.data_type.length,
                                           a.len * a.data_type.length))>>]
        ELSE IF id = "Struct" THEN a
        ELSE [base EXCEPT !.buffers = <<Slice0(a.buffers[1], a.offset, a.offset + a.len)>>]

\* the null propagation rule at output position i
RuleNull(vals, ix, i) == is_null(ix, i) \/ is_null(vals, IndexAt(ix, i))

----------------------------------------------------------------------------
\* C1: for a primitive or boolean values array and in-range indices, take
\* returns an array whose position i is null iff indices[i] is null or
\* values[indices[i]] is null
C1_NullPropagation ==
    (Called /\ IsFlat(arg_values) /\ InRange(arg_values, arg_indices))
    => /\ result.kind = "Ok"
       /\ \A i \in 0..(arg_indices.len - 1) :
             is_null(result.array, i) <=> RuleNull(arg_values, arg_indices, i)

IsPrimitive(a) == a.data_type.id \in PrimitiveTypes

\* C2: for a primitive values array and in-range indices, take returns an
\* array of indices.len elements whose value at every non-null position i is
\* the source value values[indices[i]], unconverted
C2_PrimitiveValues ==
    (Called /\ IsPrimitive(arg_values) /\ InRange(arg_values, arg_indices))
    => /\ result.kind = "Ok"
       /\ result.array.len = arg_indices.len
       /\ Len(result.array.buffers[1]) = arg_indices.len
       /\ \A i \in 0..(arg_indices.len - 1) :
             is_valid(result.array, i)
             => result.array.buffers[1][i + 1]
                  = arg_values.buffers[1][arg_values.offset + IndexAt(arg_indices, i) + 1]

----------------------------------------------------------------------------
CheckBounds == arg_options.some /\ arg_options.v.check_bounds

\* the positions of the non-null indices that are >= values.len
Offending(vals, ix) ==
    {i \in 0..(ix.len - 1) : is_valid(ix, i) /\ IndexAt(ix, i) >= vals.len}

\* C3: take with check_bounds = true and a non-null index >= values.len
\* returns a ComputeError that names the offending index and the number of
\* entries of values, and no array
C3_CheckedOutOfBounds ==
    (call = "take" /\ CheckBounds /\ Offending(arg_values, arg_indices) # {})
    => \E i \in Offending(arg_values, arg_indices) :
          result = OutOfBounds(IndexAt(arg_indices, i), arg_values.len)

C3_Witness ==
    /\ call = "take" /\ CheckBounds
    /\ Offending(arg_values, arg_indices) # {}
    /\ result.kind = "Err"
    /\ Cardinality(Offending(arg_values, arg_indices)) < arg_indices.len

----------------------------------------------------------------------------
\* C4: without bounds checking, a non-null index >= values.len makes the
\* take call panic; it never returns Ok
C4_UncheckedPanics ==
    (Called /\ ~CheckBounds /\ Offending(arg_values, arg_indices) # {})
    => result.kind = "Panic"

----------------------------------------------------------------------------
\* C5: take with options = None behaves as with check_bounds = false: the
\* outcome is one the unchecked call produces, and never the out-of-bounds
\* ComputeError of the validation pass
C5_DefaultUnchecked ==
    (Called /\ ~arg_options.some)
    => /\ \E ub \in UBOutcomes :
             result = take_impl(arg_values, arg_indices,
                                SomeOptions(TakeOptions(FALSE)), ub)
       /\ \A i \in 0..(arg_indices.len - 1) :
             result # OutOfBounds(IndexAt(arg_indices, i), arg_values.len)

C5_Witness ==
    /\ Called /\ ~arg_options.some
    /\ Offending(arg_values, arg_indices) # {}
    /\ result.kind # "Err"

----------------------------------------------------------------------------
IsString(a) == a.data_type.id \in StringTypes

\* the bytes held by position i of a string array
StringAt(a, i) == Slice0(a.buffers[2], value_offset(a, i), value_offset(a, i + 1))

\* C7: for a string values array and in-range indices, take returns a string
\* array of indices.len elements whose offsets start at 0 and never decrease;
\* a position whose index and source value are non-null is valid and holds
\* the source bytes, every other position is a zero-length slot marked null
C7_StringTake ==
    (Called /\ IsString(arg_values) /\ InRange(arg_values, arg_indices))
    => /\ result.kind = "Ok"
       /\ result.array.len = arg_indices.len
       /\ Len(result.array.buffers[1]) = arg_indices.len + 1
       /\ result.array.buffers[1][1] = 0
       /\ \A i \in 0..(arg_indices.len - 1) :
             /\ result.array.buffers[1][i + 1] <= result.array.buffers[1][i + 2]
             /\ IF RuleNull(arg_values, arg_indices, i)
                THEN /\ is_null(result.array, i)
                     /\ result.array.buffers[1][i + 1] = result.array.buffers[1][i + 2]
                ELSE /\ is_valid(result.array, i)
                     /\ StringAt(result.array, i)
                          = StringAt(arg_values, IndexAt(arg_indices, i))

----------------------------------------------------------------------------
IsDictionary(a) == a.data_type.id = "Dictionary"

\* C6: take on a dictionary array returns a dictionary array over the same
\* values child, whose keys are the primitive take of the input keys: key i
\* is null iff indices[i] or the input key at indices[i] is null, and is
\* that input key otherwise
C6_DictionaryTake ==
    (Called /\ IsDictionary(arg_values) /\ InRange(arg_values, arg_indices))
    => /\ result.kind = "Ok"
       /\ result.array.data_type = arg_values.data_type
       /\ result.array.child_data = arg_values.child_data
       /\ result.array.len = arg_indices.len
       /\ \A i \in 0..(arg_indices.len - 1) :
             /\ is_null(result.array, i) <=> RuleNull(arg_values, arg_indices, i)
             /\ is_valid(result.array, i)
                => result.array.buffers[1][i + 1]
                     = arg_values.buffers[1][arg_values.offset + IndexAt(arg_indices, i) + 1]

----------------------------------------------------------------------------
IsList(a) == a.data_type.id \in ListTypes

\* element j of a flat array as [valid, v]
ElemAt(a, j) == [valid |-> is_valid(a, j), v |-> a.buffers[1][a.offset + j + 1]]

\* two elements agree: both null, or both valid with the same value
SameElem(x, y) == x.valid = y.valid /\ (x.valid => x.v = y.v)

\* the child range of position i of a list array
ListStart(a, i) == a.buffers[1][a.offset + i + 1]
ListEnd(a, i) == a.buffers[1][a.offset + i + 2]
ListLen(a, i) == ListEnd(a, i) - ListStart(a, i)

\* C8: for a list values array and in-range indices, take returns a list
\* array of indices.len elements whose offsets are the running sums, from 0,
\* of the lengths of the lists taken, and whose every non-null position holds
\* in order the child elements, nulls included, of the source list
C8_ListTake ==
    (Called /\ IsList(arg_values) /\ InRange(arg_values, arg_indices))
    => /\ result.kind = "Ok"
       /\ result.array.len = arg_indices.len
       /\ Len(result.array.buffers[1]) = arg_indices.len + 1
       /\ result.array.buffers[1][1] = 0
       /\ \A i \in 0..(arg_indices.len - 1) :
             /\ ListLen(result.array, i)
                  = IF is_valid(arg_indices, i)
                    THEN ListLen(arg_values, IndexAt(arg_indices, i))
                    ELSE 0
             /\ is_valid(result.array, i)
                => /\ is_valid(arg_indices, i)
                   /\ ListEnd(result.array, i) <= result.array.child_data[1].len
                   /\ \A j \in 0..(ListLen(result.array, i) - 1) :
                         SameElem(
                            ElemAt(result.array.child_data[1],
                                   ListStart(result.array, i) + j),
                            ElemAt(arg_values.child_data[1],
                                   ListStart(arg_values, IndexAt(arg_indices, i)) + j))

C8_Witness ==
    /\ Called /\ IsList(arg_values) /\ InRange(arg_values, arg_indices)
    /\ result.kind = "Ok"
    /\ arg_values.offset > 0
    /\ \E i \in 0..(arg_indices.len - 1) : is_null(arg_indices, i)
    /\ \E i \in 0..(arg_indices.len - 1) :
          /\ is_valid(result.array, i)
          /\ i > 0
          /\ ListLen(result.array, i) > 1
          /\ is_null(result.array.child_data[1], ListStart(result.array, i))

\* C9: for a list values array and in-range indices, output position i is
\* null iff indices[i] is null or the source list at indices[i] is null, and
\* it is marked null exactly when offsets[i] = offsets[i+1]
C9_ListNulls ==
    (Called /\ IsList(arg_values) /\ InRange(arg_values, arg_indices))
    => /\ result.kind = "Ok"
       /\ \A i \in 0..(arg_indices.len - 1) :
             /\ is_null(result.array, i) <=> RuleNull(arg_values, arg_indices, i)
             /\ is_null(result.array, i) <=> ListLen(result.array, i) = 0

----------------------------------------------------------------------------
\* C10: for a fixed-size-list values array of size k and in-range indices,
\* take_fixed_size_list returns a fixed-size list of indices.len elements
\* whose position i is null iff indices[i] or the source position is null,
\* and whose every non-null position i holds the k child elements of the
\* source position indices[i]
C10_FixedSizeListTake ==
    (call = "take_fixed_size_list" /\ InRange(arg_values, arg_indices))
    => /\ result.kind = "Ok"
       /\ result.array.len = arg_indices.len
       /\ \A i \in 0..(arg_indices.len - 1) :
             /\ is_null(result.array, i) <=> RuleNull(arg_values, arg_indices, i)
             /\ is_valid(result.array, i)
                => /\ (i + 1) * FixedSize <= result.array.child_data[1].len
                   /\ \A j \in 0..(FixedSize - 1) :
                         SameElem(
                            ElemAt(result.array.child_data[1], i * FixedSize + j),
                            ElemAt(arg_values.child_data[1],
                                   (arg_values.offset + IndexAt(arg_indices, i))
                                       * FixedSize + j))

----------------------------------------------------------------------------
IsStruct(a) == a.data_type.id = "Struct"

\* C11: for a struct values array and in-range indices, take returns a struct
\* whose top-level validity at position i is the validity of indices[i]
C11_StructValidity ==
    (Called /\ IsStruct(arg_values) /\ InRange(arg_values, arg_indices))
    => /\ result.kind = "Ok"
       /\ \A i \in 0..(arg_indices.len - 1) :
             is_valid(result.array, i) <=> is_valid(arg_indices, i)

\* C12: for a struct values array of null count 0 and in-range indices, take
\* returns a struct of indices.len elements and null count 0 whose field j is
\* the take of field j of the input with the same indices; a null index is a
\* null in every field at that position
C12_StructFields ==
    (Called /\ IsStruct(arg_values) /\ arg_values.null_count = 0
        /\ InRange(arg_values, arg_indices))
    => /\ result.kind = "Ok"
       /\ result.array.len = arg_indices.len
       /\ result.array.null_count = 0
       /\ Len(result.array.child_data) = Len(arg_values.child_data)
       /\ \E ub \in UBOutcomes :
             \A j \in 1..Len(arg_values.child_data) :
                take_impl(arg_values.child_data[j], arg_indices, arg_options, ub)
                   = Ok(result.array.child_data[j])
       /\ \A i \in 0..(arg_indices.len - 1) :
             is_null(arg_indices, i)
             => \A j \in 1..Len(result.array.child_data) :
                   is_null(result.array.child_data[j], i)

----------------------------------------------------------------------------
\* the positions of the non-null indices that fail the validation pass
Failing(vals, ix) ==
    {i \in 0..(ix.len - 1) :
        is_valid(ix, i) /\ (IndexAt(ix, i) < 0 \/ IndexAt(ix, i) >= vals.len)}

\* the error of the validation pass at position i
FailureAt(vals, ix, i) ==
    IF IndexAt(ix, i) < 0 THEN CastFailed
    ELSE OutOfBounds(IndexAt(ix, i), vals.len)

\* C17: a take that fails returns the first failure and no array: the error
\* of the bounds check when it fails; for a struct, the failure of the first
\* field whose take fails; for a list, the failure of the child index
\* computation or of the take on the child
C17_ErrorAtomicity ==
    Called
    => /\ (CheckBounds /\ Failing(arg_values, arg_indices) # {})
          => result = FailureAt(arg_values, arg_indices,
                                Min(Failing(arg_values, arg_indices)))
       /\ (IsStruct(arg_values) /\ ~CheckBounds)
          => \E ub \in UBOutcomes :
                LET r == [j \in 1..Len(arg_values.child_data) |->
                             take_impl(arg_values.child_data[j], arg_indices,
                                       arg_options, ub)]
                    failed == {j \in DOMAIN r : r[j].kind # "Ok"}
                IN  IF failed # {} THEN result = r[Min(failed)]
                    ELSE /\ result.kind = "Ok"
                         /\ result.array.child_data
                               = [j \in DOMAIN r |-> r[j].array]
       /\ (IsList(arg_values) /\ ~CheckBounds)
          => \E ub \in UBOutcomes :
                LET li == take_value_indices_from_list(
                              arg_values, arg_indices,
                              IF arg_values.data_type.id = "List"
                              THEN "Int32" ELSE "Int64")
                IN  IF li.kind # "Pass" THEN result = li
                    ELSE LET r == take_impl(arg_values.child_data[1],
                                            li.list_indices, NoOptions, ub)
                         IN  IF r.kind # "Ok" THEN result = r
                             ELSE /\ result.kind = "Ok"
                                  /\ result.array.child_data = <<r.array>>

C17_Witness ==
    /\ Called /\ IsStruct(arg_values) /\ ~CheckBounds
    /\ result.kind # "Ok"
    /\ \E ub \in UBOutcomes :
          /\ take_impl(arg_values.child_data[1], arg_indices, arg_options, ub).kind
                = "Ok"
          /\ take_impl(arg_values.child_data[2], arg_indices, arg_options, ub)
                = result

----------------------------------------------------------------------------
\* C18: a non-null negative index in a signed index array, every other
\* non-null index being in range, makes take_impl return the ComputeError
\* "Cast to usize failed", with and without check_bounds
C18_CastFailure ==
    (Called
        /\ (\E i \in 0..(arg_indices.len - 1) :
               is_valid(arg_indices, i) /\ IndexAt(arg_indices, i) < 0)
        /\ (\A i \in 0..(arg_indices.len - 1) :
               is_valid(arg_indices, i) => IndexAt(arg_indices, i) < arg_values.len))
    => result = CastFailed

----------------------------------------------------------------------------
Compared == call = "primitive_equal"

\* the raw value stored at logical position p of a flat array
RawAt(a, p) == a.buffers[1][a.offset + p + 1]

\* the null-aware rule for one position of each side
RuleEqual(l, p, r, q) ==
    \/ is_null(l, p) /\ is_null(r, q)
    \/ is_valid(l, p) /\ is_valid(r, q) /\ RawAt(l, p) = RawAt(r, q)

\* C13: primitive_equal on the one-element range (A, B, p, p, 1) returns true
\* iff A and B are both null at p, or both non-null with the same raw value
C13_NullEquivalence ==
    (Compared /\ equal_args.len = 1 /\ equal_args.lhs_start = equal_args.rhs_start)
    => result.v = RuleEqual(equal_args.lhs, equal_args.lhs_start,
                            equal_args.rhs, equal_args.rhs_start)

\* C14: primitive_equal on arrays of which one is a slice returns what it
\* returns on the unsliced arrays of the same logical content
C14_EqualSliceTransparent ==
    (Compared /\ (equal_args.lhs.offset > 0 \/ equal_args.rhs.offset > 0))
    => result.v = primitive_equal(Compact(equal_args.lhs), Compact(equal_args.rhs),
                                  equal_args.lhs_start, equal_args.rhs_start,
                                  equal_args.len)

C14_Witness ==
    /\ Compared
    /\ equal_args.lhs.offset > 0 /\ equal_args.rhs.offset = 0
    /\ equal_args.lhs.null_count > 0
    /\ equal_args.len > 1
    /\ \E i \in 0..(equal_args.len - 1) :
          is_valid(equal_args.lhs, equal_args.lhs_start + i)
    /\ equal_args.lhs.buffers[1] # equal_args.rhs.buffers[1]
    /\ result.v

\* C19: when both arrays report a null count of 0, primitive_equal returns
\* what comparing the len positions one by one under the null-aware rule
\* returns, for every in-range range, len = 0 included
C19_FastPath ==
    (Compared /\ equal_args.lhs.null_count = 0 /\ equal_args.rhs.null_count = 0)
    => result.v = \A i \in 0..(equal_args.len - 1) :
                     RuleEqual(equal_args.lhs, equal_args.lhs_start + i,
                               equal_args.rhs, equal_args.rhs_start + i)

C19_Witness ==
    /\ Compared
    /\ equal_args.lhs.null_count = 0 /\ equal_args.rhs.null_count = 0
    /\ equal_args.len > 1
    /\ equal_args.lhs.offset > 0
    /\ equal_args.lhs_start # equal_args.rhs_start \/ equal_args.rhs.offset = 0
    /\ result.v

----------------------------------------------------------------------------
\* two flat arrays have the same validity, and the same raw value at every
\* valid position
SameFlat(x, y) ==
    /\ x.data_type = y.data_type
    /\ x.len = y.len
    /\ \A i \in 0..(x.len - 1) :
          /\ is_valid(x, i) <=> is_valid(y, i)
          /\ is_valid(x, i) => RawAt(x, i) = RawAt(y, i)

\* the child elements of position i of a list or fixed-size-list array, as a
\* sequence of [valid, v]; an element the child does not hold is "missing"
ChildElems(a, i) ==
    LET start == IF IsList(a) THEN ListStart(a, i)
                 ELSE (a.offset + i) * a.data_type.length
        n == IF IsList(a) THEN ListLen(a, i) ELSE a.data_type.length
        child == a.child_data[1]
    IN  [j \in 1..n |->
            IF start + j - 1 < child.len
            THEN IF is_valid(child, start + j - 1)
                 THEN [valid |-> TRUE, v |-> RawAt(child, start + j - 1)]
                 ELSE [valid |-> FALSE, v |-> 0]
            ELSE [valid |-> FALSE, v |-> "missing"]]

\* two arrays have the same logical content: the same type and length, the
\* same validity, and the same value at every valid position
SameArray(x, y) ==
    /\ x.data_type = y.data_type
    /\ x.len = y.len
    /\ \A i \in 0..(x.len - 1) :
          /\ is_valid(x, i) <=> is_valid(y, i)
          /\ is_valid(x, i)
             => IF IsString(x) THEN StringAt(x, i) = StringAt(y, i)
                ELSE IF IsList(x) \/ x.data_type.id = "FixedSizeList"
                     THEN ChildElems(x, i) = ChildElems(y, i)
                ELSE IF IsStruct(x) THEN TRUE
                ELSE RawAt(x, i) = RawAt(y, i)
    /\ IsDictionary(x) => x.child_data = y.child_data
    /\ IsStruct(x)
       => /\ Len(x.child_data) = Len(y.child_data)
          /\ \A j \in 1..Len(x.child_data) : SameFlat(x.child_data[j], y.child_data[j])

\* two calls end alike: both Ok with the same logical content, or the same
\* failure
SameOutcome(r1, r2) ==
    IF r1.kind = "Ok" /\ r2.kind = "Ok" THEN SameArray(r1.array, r2.array)
    ELSE r1 = r2

\* the entry point of the call made, applied to other arguments
Recall(vals, ix, ub) ==
    IF call = "take_fixed_size_list"
    THEN take_fixed_size_list(vals, ix, vals.data_type.length, ub)
    ELSE take_impl(vals, ix, arg_options, ub)

\* C15: take on a values array that is a slice with a non-zero offset, with
\* in-range indices, returns the same logical result (validity, and values
\* at the valid positions) as on the unsliced values array of the same
\* logical content, whatever an undefined read of either call does
C15_ValuesSliceTransparent ==
    (Called /\ arg_values.offset > 0 /\ InRange(arg_values, arg_indices))
    => \A ub \in UBOutcomes :
          SameOutcome(result, Recall(Compact(arg_values), arg_indices, ub))

\* C16: take with an index array that is a slice with a non-zero offset
\* returns the same logical result as with the unsliced index array of the
\* same logical content
C16_IndicesSliceTransparent ==
    (Called /\ arg_indices.offset > 0 /\ InRange(arg_values, arg_indices))
    => \A ub \in UBOutcomes :
          SameOutcome(result, Recall(arg_values, Compact(arg_indices), ub))

\* two runs of take_string end alike: both Ok with the same offsets, the same
\* value bytes and the same validity at every position, or both fail in the
\* same way
SameString(r1, r2) ==
    IF r1.kind = "Ok" /\ r2.kind = "Ok"
    THEN /\ r1.array.len = r2.array.len
         /\ r1.array.buffers = r2.array.buffers
         /\ \A i \in 0..(r1.array.len - 1) :
               is_valid(r1.array, i) <=> is_valid(r2.array, i)
    ELSE r1.kind = r2.kind

\* the call reached take_string
ReachedString ==
    /\ call \in {"take", "take_impl"}
    /\ IsString(arg_values)
    /\ unwrap_or_default(arg_options).check_bounds
       => check_bounds_pass(arg_values, arg_indices).kind = "Pass"

\* C20: on every input with in-range indices on which take_string selects a
\* specialised branch,
\* the offsets, value bytes and per-position validity it produces are those
\* the general branch (both sides checked for nulls) produces on that input
C20_StringBranches ==
    (ReachedString /\ InRange(arg_values, arg_indices)
       /\ string_branch(arg_values, arg_indices) # "both")
    => \A ub \in UBOutcomes :
          result = take_string(arg_values, arg_indices, ub)
          => SameString(result,
                        take_string_branch(arg_values, arg_indices, ub, "both"))

\* a take call was made (not a primitive_equal call)
TakeCalled == call \in {"take", "take_impl", "take_fixed_size_list"}

\* the array and its children have no null at any level
RECURSIVE NoNulls(_)
NoNulls(a) ==
    /\ a.null_count = 0
    /\ \A j \in 1..Len(a.child_data) : NoNulls(a.child_data[j])

\* C21: at the primitive, boolean, string, list, fixed-size-list and
\* dictionary layouts, when neither the values array nor the index array has
\* any null, the array take returns carries no null bitmap at all
C21_NoBitmap ==
    (/\ TakeCalled
     /\ ~IsStruct(arg_values)
     /\ NoNulls(arg_values)
     /\ arg_indices.null_count = 0
     /\ result.kind = "Ok")
    => ~result.array.null_bitmap.present

\* the positions of the non-null indices that fail the validation pass:
\* negative (the cast to usize fails) or >= values.len
Invalid(vals, ix) ==
    {i \in 0..(ix.len - 1) :
        is_valid(ix, i) /\ (IndexAt(ix, i) < 0 \/ IndexAt(ix, i) >= vals.len)}

\* the error of the validation pass for the index at position i
ValidationError(vals, ix, i) ==
    IF IndexAt(ix, i) < 0 THEN CastFailed
    ELSE OutOfBounds(IndexAt(ix, i), vals.len)

\* C22: with check_bounds = true, take returns the error of the first
\* (lowest-position) non-null index that is out of range or fails the cast,
\* whatever the later entries and whatever the type of the values array;
\* null entries are skipped
C22_FirstInvalidIndex ==
    (call \in {"take", "take_impl"} /\ CheckBounds
       /\ Invalid(arg_values, arg_indices) # {})
    => result = ValidationError(arg_values, arg_indices,
                                Min(Invalid(arg_values, arg_indices)))

\* two failing indices with different errors, and the first one reported
C22_Witness ==
    /\ call \in {"take", "take_impl"} /\ CheckBounds
    /\ \E i, j \in Invalid(arg_values, arg_indices) :
          /\ i < j
          /\ ValidationError(arg_values, arg_indices, i)
                # ValidationError(arg_values, arg_indices, j)
          /\ result = ValidationError(arg_values, arg_indices, i)

\* the validation pass let the call through to the dispatch
Dispatched ==
    /\ call \in {"take", "take_impl"}
    /\ CheckBounds => Invalid(arg_values, arg_indices) = {}

\* the type tags of the data model, and the key types of its dictionaries
HasRoutine(data_type) ==
    \/ data_type.id \in {"Boolean", "FixedSizeList", "Struct"}
    \/ data_type.id \in PrimitiveTypes \cup StringTypes \cup ListTypes
    \/ data_type.id = "Dictionary" /\ data_type.key \in DictionaryKeyTypes

\* the routine of the layout family of the values array
Routine(vals, ix, opts, ub) ==
    IF IsString(vals) THEN take_string(vals, ix, ub)
    ELSE IF IsList(vals)
         THEN take_list(vals, ix,
                        IF vals.data_type.id = "List" THEN "Int32" ELSE "Int64", ub)
    ELSE IF IsStruct(vals) THEN take_struct(vals, ix, unwrap_or_default(opts), ub)
    ELSE IF IsDictionary(vals) THEN take_dict(vals, ix, ub)
    ELSE IF vals.data_type.id = "FixedSizeList"
         THEN take_fixed_size_list(vals, ix, vals.data_type.length, ub)
    ELSE IF vals.data_type.id = "Boolean" THEN take_boolean(vals, ix, ub)
    ELSE take_primitive(vals, ix, ub)

WellFormed(a, n) ==
    /\ a.len = n
    /\ a.offset = 0
    /\ a.null_bitmap.present => Len(a.null_bitmap.bits) >= a.len
    /\ a.null_count = count_nulls(a.null_bitmap, 0, a.len)

\* the arrays that take built below the top level: the fields of a struct,
\* the child of a list or fixed-size list
BuiltChildren(a) ==
    IF IsStruct(a) \/ IsList(a) \/ a.data_type.id = "FixedSizeList"
    THEN {a.child_data[j] : j \in 1..Len(a.child_data)}
    ELSE {}

\* C24: every array take returns is well-formed, at the top level with the
\* length of the index array, and at the nesting level below
C24_WellFormed ==
    (TakeCalled /\ result.kind = "Ok")
    => /\ WellFormed(result.array, arg_indices.len)
       /\ \A c \in BuiltChildren(result.array) : WellFormed(c, c.len)
       /\ IsStruct(result.array)
          => \A c \in BuiltChildren(result.array) : c.len = arg_indices.len

\* a returned list with a null position and a null child value
C24_Witness ==
    /\ TakeCalled /\ result.kind = "Ok"
    /\ IsList(result.array)
    /\ result.array.null_count > 0
    /\ result.array.null_count < result.array.len
    /\ \E c \in BuiltChildren(result.array) : c.null_count > 0

\* C25: primitive_equal is symmetric (swapping the two sides and their
\* starts returns the same), and reflexive (a range compared with itself is
\* equal)
C25_SymmetricReflexive ==
    Compared
    => /\ result.v = primitive_equal(equal_args.rhs, equal_args.lhs,
                                     equal_args.rhs_start, equal_args.lhs_start,
                                     equal_args.len)
       /\ (equal_args.lhs = equal_args.rhs
             /\ equal_args.lhs_start = equal_args.rhs_start) => result.v

\* the raw values that an index array of this type can hold under a null
NullRaws(ix) ==
    IF ix.data_type.id = "UInt32" THEN {0, MaxLen} ELSE {-1, 0, MaxLen}

\* the index array ix with the raw value r under every null slot
Reraw(ix, r) ==
    [ix EXCEPT !.buffers =
        <<[k \in 1..Len(ix.buffers[1]) |->
              IF /\ k - 1 - ix.offset \in 0..(ix.len - 1)
                 /\ is_null(ix, k - 1 - ix.offset)
              THEN r ELSE ix.buffers[1][k]]>>]

\* C26: with in-range non-null indices, take returns Ok, and the same logical
\* result whatever the raw values under the null index slots are, with and
\* without check_bounds
C26_NullSlotIndependence ==
    (TakeCalled /\ arg_indices.null_count > 0 /\ InRange(arg_values, arg_indices))
    => /\ result.kind = "Ok"
       /\ \A r \in NullRaws(arg_indices), ub \in UBOutcomes :
             SameOutcome(result, Recall(arg_values, Reraw(arg_indices, r), ub))

\* C27: take and take_impl return Ok on a fixed-size-list values array with
\* in-range indices, whatever the integer type of the index array
C27_FixedSizeListAnyIndexType ==
    (/\ call \in {"take", "take_impl"}
     /\ arg_values.data_type.id = "FixedSizeList"
     /\ InRange(arg_values, arg_indices))
    => result.kind = "Ok"

====
